---- MODULE Spec2Model ----
(***************************************************************************)
(* Call lifecycle of the invoice-validation voice agent (src/agent.py):    *)
(* entrypoint, the tools of InvoiceValidationAgent and the completion      *)
(* handler save_call_transcript, together with the environment they run    *)
(* in (callee, conversation loop, job teardown, datastore).                *)
(*                                                                         *)
(* Text is modelled as a sequence of tokens: "" is << >>, concatenation is *)
(* \o.  A JSON / Python value is a record [t, s]: t = "null" for None,     *)
(* t = "str" for a string whose text is s.                                 *)
(***************************************************************************)
EXTENDS Integers, Sequences, FiniteSets, TLC

\* ---------------------------------------------------------------- bounds
MaxHistory == 2

\* ---------------------------------------------------------------- values
Null == [t |-> "null", s |-> << >>]
Str(s) == [t |-> "str", s |-> s]

\* strings the language model may pass to collect_email
Emails == { << >>, <<"a@x">>, <<"b@x">> }

\* dict.get(key) with the default None
Get(d, k) == IF k \in DOMAIN d THEN d[k] ELSE Null

\* Python truth value of None / str: None is false, a str is true iff len > 0
Truthy(v) == v.t = "str" /\ Len(v.s) > 0

\* d[k] = v on a dict
DictSet(d, k, v) == [x \in (DOMAIN d) \cup {k} |-> IF x = k THEN v ELSE d[x]]

\* job metadata as dispatched (the decoded JSON object)
BaseMetadata == [validationId |-> Str(<<"v1">>), dealershipId |-> Str(<<"d1">>)]
WithPhone(d, present) == IF present THEN DictSet(d, "phoneNumber", Str(<<"+1555">>)) ELSE d
JobInputs ==
  { WithPhone(BaseMetadata, p) : p \in BOOLEAN } \cup
  { DictSet(WithPhone(BaseMetadata, p), "collectedEmail", v) :
      p \in BOOLEAN, v \in {Null, Str(<<"a@x">>)} }

\* ---------------------------------------------------------------- bootstrap
\* JSON true / false and JSON objects
Bool(b) == [t |-> "bool", s |-> <<IF b THEN "True" ELSE "False">>]
Obj(o) == [t |-> "obj", s |-> << >>, o |-> o]

\* dict.get(key) where dict.get(key, default) was meant
GetDefault_NoDefault(d, k, default) == IF k \in DOMAIN d THEN d[k] ELSE Null

\* dict.get(key, default)
GetDefault(d, k, default) == IF k \in DOMAIN d THEN d[k] ELSE default

\* str(value) as an f-string renders it
Format(v) == IF v.t = "null" THEN <<"None">> ELSE v.s

\* metadata.get("invoiceData", {})   (line 323)
InvoiceData(m) == GetDefault(m, "invoiceData", Obj([x \in {} |-> Null]))

\* lines 319-328: the values entrypoint reads once the metadata is parsed
Persona(m) ==
  [ phone_number         |-> Get(m, "phoneNumber"),
    participant_identity |-> <<"dealership-">>
                               \o Format(GetDefault(m, "dealershipId", Str(<<"unknown">>))),
    dealership_name      |-> GetDefault(InvoiceData(m).o, "dealershipName",
                                        Str(<<"Unknown Dealership">>)),
    invoice_number       |-> GetDefault(InvoiceData(m).o, "invoiceNumber", Str(<<"N/A">>)),
    customer_name        |-> GetDefault(InvoiceData(m).o, "customerName",
                                        Str(<<"Unknown Customer">>)),
    vin                  |-> GetDefault(InvoiceData(m).o, "vin", Str(<<"N/A">>)),
    needs_email          |-> GetDefault(m, "needsEmail", Bool(TRUE)) ]

\* nothing read yet
NoPersona == [ phone_number |-> Null ]

\* ---------------------------------------------------------------- messages
Plain(s) == [t |-> "str", v |-> s]
Parts(items) == [t |-> "list", v |-> items]
Messages ==
  { [role |-> "system",    content |-> Plain(<<"instr">>)],
    [role |-> "assistant", content |-> Plain(<<"Si", "\n", "Adios">>)],
    [role |-> "user",      content |-> Parts(<< [hasText |-> TRUE, text |-> "Bueno"],
                                                [hasText |-> FALSE, text |-> "b@x"] >>)] }

\* item.text if hasattr(item, 'text') else str(item)   (line 259)
ItemText(item) == <<item.text>>

RECURSIVE Join(_, _)
RECURSIVE TranscriptParts(_)
\* sep.join(parts) for a sequence of texts
Join(sep, parts) ==
  IF Len(parts) = 0 THEN << >>
  ELSE IF Len(parts) = 1 THEN parts[1]
  ELSE parts[1] \o sep \o Join(sep, Tail(parts))

\* content of one message as text (lines 253-261)
ContentText(c) ==
  IF c.t = "str" THEN c.v
  ELSE IF c.t = "list" THEN Join(<<" ">>, [i \in 1..Len(c.v) |-> ItemText(c.v[i])])
  ELSE << >>

\* "Agent" for assistant, "Dealership" otherwise (line 264)
RoleName(role) == IF role = "assistant" THEN "Agent" ELSE "Dealership"

\* TranscriptParts without the skip of lines 248-250
TranscriptParts_KeepSystem(msgs) ==
  [ j \in 1..Len(msgs) |-> <<RoleName(msgs[j].role), ": ">> \o ContentText(msgs[j].content) ]

\* the loop of lines 245-265
TranscriptParts(msgs) ==
  IF Len(msgs) = 0 THEN << >>
  ELSE IF Head(msgs).role = "system" THEN TranscriptParts(Tail(msgs))
  ELSE << <<RoleName(Head(msgs).role), ": ">> \o ContentText(Head(msgs).content) >>
         \o TranscriptParts(Tail(msgs))

\* the histories the session may hold when the call ends
Histories == UNION { [1..n -> Messages] : n \in 0..MaxHistory }

\* lines 241-267; chat is "absent" when the session has no chat_ctx
FullTranscript(chat, msgs) ==
  IF chat = "present" THEN Join(<<"\n">>, TranscriptParts(msgs)) ELSE << >>

\* ---------------------------------------------------------------- completion handler
RoomName == <<"room1">>

\* CallData with the outcome decided by the presence of a value, not its truth
CallData_OutcomeByPresence(metadata, room_name, full_transcript) ==
  [ validation_id   |-> Get(metadata, "validationId"),
    dealership_id   |-> Get(metadata, "dealershipId"),
    room_name       |-> room_name,
    full_transcript |-> full_transcript,
    call_ended_at   |-> "utcnow",
    email_collected |-> Get(metadata, "collectedEmail"),
    call_outcome    |-> IF Get(metadata, "collectedEmail") # Null THEN "success" ELSE "failed" ]

\* lines 271-287: the CallRecord
CallData(metadata, room_name, full_transcript) ==
  [ validation_id   |-> Get(metadata, "validationId"),
    dealership_id   |-> Get(metadata, "dealershipId"),
    room_name       |-> room_name,
    full_transcript |-> full_transcript,
    call_ended_at   |-> "utcnow",
    email_collected |-> Get(metadata, "collectedEmail"),
    call_outcome    |-> IF Truthy(Get(metadata, "collectedEmail")) THEN "success" ELSE "failed" ]

\* the status update of lines 295-298
StatusUpdate(metadata) ==
  [ id |-> Get(metadata, "validationId"), status |-> "ENDED_CALL", updated_at |-> "utcnow" ]

\* what one run of save_call_transcript did: the requests it issued, the
\* rows it stored, its logger.error calls and whether an exception left it
Outcome(ins, upd, stored, updated, errs, raised) ==
  [ inserts |-> ins, updates |-> upd, stored |-> stored, updated |-> updated,
    errors |-> errs, raised |-> raised ]

\* ExceptClause without the handler: the exception leaves the function unlogged
ExceptClause_Propagates(ins, upd, stored, updated) == Outcome(ins, upd, stored, updated, 0, TRUE)

\* lines 307-308: except Exception -> one logger.error, normal return
ExceptClause(ins, upd, stored, updated) == Outcome(ins, upd, stored, updated, 1, FALSE)

\* InsertAndUpdate without the test of result.data: the update follows any
\* insert that did not raise
InsertAndUpdate_NoDataTest(call_data, status_update, insRes, updRes) ==
  IF insRes = "raise" THEN ExceptClause(<<call_data>>, << >>, << >>, FALSE)
  ELSE LET stored == IF insRes = "ok" THEN <<call_data>> ELSE << >>
       IN IF updRes = "raise" THEN ExceptClause(<<call_data>>, <<status_update>>, stored, FALSE)
          ELSE IF updRes = "nodata" THEN Outcome(<<call_data>>, <<status_update>>, stored, FALSE, 1, FALSE)
          ELSE Outcome(<<call_data>>, <<status_update>>, stored, TRUE, 0, FALSE)

\* lines 289-305: insert, then the status update when result.data is non-empty
InsertAndUpdate(call_data, status_update, insRes, updRes) ==
  IF insRes = "raise" THEN ExceptClause(<<call_data>>, << >>, << >>, FALSE)
  ELSE IF insRes = "nodata" THEN Outcome(<<call_data>>, << >>, << >>, FALSE, 1, FALSE)
  ELSE IF updRes = "raise" THEN ExceptClause(<<call_data>>, <<status_update>>, <<call_data>>, FALSE)
  ELSE IF updRes = "nodata" THEN Outcome(<<call_data>>, <<status_update>>, <<call_data>>, FALSE, 1, FALSE)
  ELSE Outcome(<<call_data>>, <<status_update>>, <<call_data>>, TRUE, 0, FALSE)

\* save_call_transcript without the test of lines 236-238: the handler goes on
\* with no client, and the first use of it raises into the except clause
save_call_transcript_NoClientTest(client, chat, msgs, metadata, room_name, insRes, updRes) ==
  IF chat = "malformed" THEN ExceptClause(<< >>, << >>, << >>, FALSE)
  ELSE InsertAndUpdate(CallData(metadata, room_name, FullTranscript(chat, msgs)),
                       StatusUpdate(metadata), IF client THEN insRes ELSE "raise", updRes)

\* save_call_transcript(session, metadata, room_name), lines 233-308.
\* client: the module-level supabase is not None; chat: shape of
\* session.chat_ctx; insRes, updRes: what the datastore answers.
save_call_transcript(client, chat, msgs, metadata, room_name, insRes, updRes) ==
  IF ~client THEN Outcome(<< >>, << >>, << >>, FALSE, 1, FALSE)
  ELSE IF chat = "malformed" THEN ExceptClause(<< >>, << >>, << >>, FALSE)
  ELSE InsertAndUpdate(CallData(metadata, room_name, FullTranscript(chat, msgs)),
                       StatusUpdate(metadata), insRes, updRes)

DbResults == {"ok", "nodata", "raise"}

\* ---------------------------------------------------------------- state
VARIABLES
  jobMetadata,      \* ctx.job.metadata as dispatched
  supabase,         \* TRUE iff the module-level client was created (line 45)
  pc,               \* position of entrypoint
  metadata,         \* the dict shared by entrypoint, the agent and the handler
  remote,           \* the callee: "absent", "expected", "other", "left"
  agentParticipant, \* agent.participant: "none" or "set"
  sessionStarted,   \* session.start was invoked
  dialFailed,       \* create_sip_participant raised TwirpError
  persona,          \* what entrypoint read from the metadata (lines 319-328)
  steps,            \* the steps entrypoint has taken, in order
  currentSpeech,    \* session.current_speech is not None: a speech is playing
  toolPc,           \* the tool the conversation loop is running, "idle" if none
  toolArg,          \* its argument
  capturedSpeech,   \* the speech end_call read from current_speech: "none",
                    \* "playing", or "done" once its playout has finished
  toolErrors,       \* some tool invocation raised
  confirmDone,      \* some confirm_invoice_details returned
  lastCollected,    \* argument of the latest collect_email that completed
  roomDeleted,      \* a delete_room request was issued
  callbacks,        \* number of registered shutdown callbacks
  shutdownReason,   \* why the job is being shut down, "none" while it is not
  jobState,         \* "running", "shutting_down", "closed"
  pending,          \* callbacks the teardown still has to run
  runs              \* the runs of write_transcript, in order

vars == << jobMetadata, supabase, pc, metadata, remote, agentParticipant, sessionStarted,
           dialFailed, persona, steps, currentSpeech, toolPc, toolArg, capturedSpeech,
           toolErrors, confirmDone, lastCollected, roomDeleted, callbacks, shutdownReason, jobState,
           pending, runs >>

configVars == << jobMetadata, supabase >>
entryVars == << pc, metadata, agentParticipant, sessionStarted, dialFailed, persona, steps,
               callbacks >>
speechVars == << currentSpeech >>
toolVars == << toolPc, toolArg, capturedSpeech, toolErrors, confirmDone, lastCollected,
              roomDeleted >>
jobVars == << jobState, pending, runs >>

EmptyDict == [x \in {} |-> Null]

\* the state of a freshly dispatched job whose metadata is one of inputs
InitWith(inputs) ==
  /\ jobMetadata \in inputs
  /\ supabase \in BOOLEAN
  /\ pc = "start"
  /\ metadata = EmptyDict
  /\ remote = "absent"
  /\ agentParticipant = "none"
  /\ sessionStarted = FALSE
  /\ dialFailed = FALSE
  /\ persona = NoPersona
  /\ steps = << >>
  /\ currentSpeech = FALSE
  /\ toolPc = "idle"
  /\ toolArg = << >>
  /\ capturedSpeech = "none"
  /\ toolErrors = FALSE
  /\ confirmDone = FALSE
  /\ lastCollected = [done |-> FALSE, email |-> << >>, overwrote |-> FALSE]
  /\ roomDeleted = FALSE
  /\ callbacks = 0
  /\ shutdownReason = "none"
  /\ jobState = "running"
  /\ pending = 0
  /\ runs = << >>

Init == InitWith(JobInputs)

\* the first cause of a shutdown is the one the job is shut down for
Request(reason) == IF shutdownReason = "none" THEN reason ELSE shutdownReason

\* ---------------------------------------------------------------- entrypoint
\* lines 312-328: json.loads and the reads of the metadata; invoice_data.get
\* raises AttributeError when invoiceData is there but is not an object
Parse ==
  /\ jobState = "running" /\ pc = "start"
  /\ metadata' = jobMetadata
  /\ IF InvoiceData(jobMetadata).t = "obj"
       THEN persona' = Persona(jobMetadata) /\ pc' = "connect"
       ELSE persona' = NoPersona /\ pc' = "crashed"
  /\ UNCHANGED << configVars, remote, agentParticipant, sessionStarted, dialFailed, steps,
                  speechVars, toolVars, callbacks, shutdownReason, jobVars >>

\* Connect with the dial request sent before the room is connected
Connect_DialFirst ==
  /\ jobState = "running" /\ pc = "connect"
  /\ pc' = IF persona.phone_number # Null THEN "dial" ELSE "session_start"
  /\ steps' = steps \o (IF persona.phone_number # Null THEN <<"dial_request">> ELSE << >>)
                    \o <<"connect">>
  /\ UNCHANGED << configVars, metadata, remote, agentParticipant, sessionStarted, dialFailed,
                  persona,
                  speechVars, toolVars, callbacks, shutdownReason, jobVars >>

\* Connect that dials whatever the metadata says
Connect_AlwaysDial ==
  /\ jobState = "running" /\ pc = "connect"
  /\ pc' = "dial"
  /\ steps' = steps \o <<"connect", "dial_request">>
  /\ UNCHANGED << configVars, metadata, remote, agentParticipant, sessionStarted, dialFailed,
                  persona,
                  speechVars, toolVars, callbacks, shutdownReason, jobVars >>

\* lines 330-335: await ctx.connect(), then the phone_number test
Connect ==
  /\ jobState = "running" /\ pc = "connect"
  /\ pc' = IF persona.phone_number # Null THEN "dial" ELSE "session_start"
  /\ steps' = steps \o <<"connect">>
                    \o (IF persona.phone_number # Null THEN <<"dial_request">> ELSE << >>)
  /\ UNCHANGED << configVars, metadata, remote, agentParticipant, sessionStarted, dialFailed,
                  persona,
                  speechVars, toolVars, callbacks, shutdownReason, jobVars >>

\* lines 338-348: the dial returns once the callee has answered
DialAnswered ==
  /\ jobState = "running" /\ pc = "dial"
  /\ remote' = "expected"
  /\ pc' = "session_start"
  /\ steps' = Append(steps, "dial_answered")
  /\ UNCHANGED << configVars, metadata, agentParticipant, sessionStarted, dialFailed, persona,
                  speechVars, toolVars, callbacks, shutdownReason, jobVars >>

\* DialFailed without the return: entrypoint goes on to start the session
DialFailed_NoReturn ==
  /\ jobState = "running" /\ pc = "dial"
  /\ dialFailed' = TRUE
  /\ shutdownReason' = Request("dial_failed")
  /\ pc' = "session_start"
  /\ steps' = steps \o <<"dial_failed", "shutdown">>
  /\ UNCHANGED << configVars, metadata, remote, agentParticipant, sessionStarted, persona,
                  speechVars, toolVars, callbacks, jobVars >>

\* lines 349-356: TwirpError -> ctx.shutdown(); return
DialFailed ==
  /\ jobState = "running" /\ pc = "dial"
  /\ dialFailed' = TRUE
  /\ shutdownReason' = Request("dial_failed")
  /\ pc' = "returned"
  /\ steps' = steps \o <<"dial_failed", "shutdown">>
  /\ UNCHANGED << configVars, metadata, remote, agentParticipant, sessionStarted, persona,
                  speechVars, toolVars, callbacks, jobVars >>

\* lines 358-384: the agent and the session are created, session.start
SessionStart ==
  /\ jobState = "running" /\ pc = "session_start"
  /\ sessionStarted' = TRUE
  /\ pc' = "wait_participant"
  /\ steps' = steps \o <<"session_start", "wait_for_participant">>
  /\ UNCHANGED << configVars, metadata, remote, agentParticipant, dialFailed, persona,
                  speechVars, toolVars, callbacks, shutdownReason, jobVars >>

\* ParticipantJoined with write_transcript registered twice
ParticipantJoined_RegistersTwice ==
  /\ jobState = "running" /\ pc = "wait_participant"
  /\ remote = "expected"
  /\ agentParticipant' = "set"
  /\ callbacks' = callbacks + 2
  /\ pc' = "done"
  /\ steps' = steps \o <<"participant_joined", "set_participant", "callback_registered">>
  /\ UNCHANGED << configVars, metadata, remote, sessionStarted, dialFailed, persona,
                  speechVars, toolVars, shutdownReason, jobVars >>

\* lines 386-400: wait_for_participant returns, set_participant, and the
\* registration of write_transcript (no suspension point in between)
ParticipantJoined ==
  /\ jobState = "running" /\ pc = "wait_participant"
  /\ remote = "expected"
  /\ agentParticipant' = "set"
  /\ callbacks' = callbacks + 1
  /\ pc' = "done"
  /\ steps' = steps \o <<"participant_joined", "set_participant", "callback_registered">>
  /\ UNCHANGED << configVars, metadata, remote, sessionStarted, dialFailed, persona,
                  speechVars, toolVars, shutdownReason, jobVars >>

\* ---------------------------------------------------------------- tools
ToolNames == {"collect_email", "end_call", "confirm_invoice_details", "detected_answering_machine"}

\* the arguments the language model may pass
ToolArgs(name) ==
  IF name = "collect_email" THEN Emails
  ELSE IF name = "confirm_invoice_details"
    THEN { <<c>> \o notes : c \in {"True", "False"}, notes \in {<< >>, <<"ok">>} }
  ELSE { << >> }

\* the conversation loop calls a tool; it may do so once the session is
\* started and somebody is in the room to talk to
InvokeTool(name, arg) ==
  /\ sessionStarted /\ jobState = "running" /\ toolPc = "idle"
  /\ remote \in {"expected", "other"}
  /\ toolPc' = name
  /\ toolArg' = arg
  /\ UNCHANGED << configVars, entryVars, remote, speechVars, capturedSpeech, toolErrors, confirmDone,
                  lastCollected, roomDeleted, shutdownReason, jobVars >>

\* self.participant.identity raises AttributeError while self.participant is
\* None (lines 184, 195, 218, 229): the tool ends there
ToolRaises ==
  /\ agentParticipant = "none"
  /\ toolPc' = "idle"
  /\ toolErrors' = TRUE
  /\ UNCHANGED << configVars, entryVars, remote, speechVars, toolArg, capturedSpeech,
                  confirmDone, lastCollected, roomDeleted, shutdownReason, jobVars >>

\* hangup(), lines 163-171: the delete_room request
Hangup ==
  /\ roomDeleted' = TRUE
  /\ shutdownReason' = Request("room_deleted")

\* CollectEmail storing the address under another key
CollectEmail_OtherKey ==
  /\ jobState = "running" /\ toolPc = "collect_email"
  /\ \/ ToolRaises
     \/ /\ agentParticipant # "none"
        /\ metadata' = DictSet(metadata, "email", Str(toolArg))
        /\ lastCollected' = [ done |-> TRUE, email |-> toolArg,
                               overwrote |-> \/ lastCollected.overwrote
                                             \/ /\ lastCollected.done
                                                /\ lastCollected.email # toolArg ]
        /\ toolPc' = "idle"
        /\ UNCHANGED << configVars, pc, remote, agentParticipant, sessionStarted, dialFailed,
                        persona, steps,
                        speechVars, toolArg, capturedSpeech, toolErrors, confirmDone, roomDeleted,
                        callbacks, shutdownReason, jobVars >>

\* CollectEmail keeping the first address: the key is written only when unset
CollectEmail_FirstWins ==
  /\ jobState = "running" /\ toolPc = "collect_email"
  /\ \/ ToolRaises
     \/ /\ agentParticipant # "none"
        /\ metadata' = IF Get(metadata, "collectedEmail") = Null
                          THEN DictSet(metadata, "collectedEmail", Str(toolArg))
                          ELSE metadata
        /\ lastCollected' = [ done |-> TRUE, email |-> toolArg,
                               overwrote |-> \/ lastCollected.overwrote
                                             \/ /\ lastCollected.done
                                                /\ lastCollected.email # toolArg ]
        /\ toolPc' = "idle"
        /\ UNCHANGED << configVars, pc, remote, agentParticipant, sessionStarted, dialFailed,
                        persona, steps,
                        speechVars, toolArg, capturedSpeech, toolErrors, confirmDone, roomDeleted,
                        callbacks, shutdownReason, jobVars >>

\* collect_email, lines 173-190
CollectEmail ==
  /\ jobState = "running" /\ toolPc = "collect_email"
  /\ \/ ToolRaises
     \/ /\ agentParticipant # "none"
        /\ metadata' = DictSet(metadata, "collectedEmail", Str(toolArg))
        /\ lastCollected' = [ done |-> TRUE, email |-> toolArg,
                               overwrote |-> \/ lastCollected.overwrote
                                             \/ /\ lastCollected.done
                                                /\ lastCollected.email # toolArg ]
        /\ toolPc' = "idle"
        /\ UNCHANGED << configVars, pc, remote, agentParticipant, sessionStarted, dialFailed,
                        persona, steps,
                        speechVars, toolArg, capturedSpeech, toolErrors, confirmDone, roomDeleted,
                        callbacks, shutdownReason, jobVars >>

\* EndCall without the wait: current_speech is read but not awaited
EndCall_NoWait ==
  /\ jobState = "running" /\ toolPc = "end_call"
  /\ \/ ToolRaises
     \/ /\ agentParticipant # "none"
        /\ capturedSpeech' = IF currentSpeech THEN "playing" ELSE "none"
        /\ toolPc' = "end_call_hangup"
        /\ UNCHANGED << configVars, entryVars, remote, speechVars, toolArg, toolErrors, confirmDone,
                        lastCollected, roomDeleted, shutdownReason, jobVars >>

\* end_call, lines 192-200: the log line, then current_speech is read and,
\* when there is one, its playout is awaited
EndCall ==
  /\ jobState = "running" /\ toolPc = "end_call"
  /\ \/ ToolRaises
     \/ /\ agentParticipant # "none"
        /\ capturedSpeech' = IF currentSpeech THEN "playing" ELSE "none"
        /\ toolPc' = IF currentSpeech THEN "end_call_wait" ELSE "end_call_hangup"
        /\ UNCHANGED << configVars, entryVars, remote, speechVars, toolArg, toolErrors, confirmDone,
                        lastCollected, roomDeleted, shutdownReason, jobVars >>

\* end_call, line 200: wait_for_playout resolves
EndCallPlayedOut ==
  /\ jobState = "running" /\ toolPc = "end_call_wait"
  /\ capturedSpeech = "done"
  /\ toolPc' = "end_call_hangup"
  /\ UNCHANGED << configVars, entryVars, remote, speechVars, toolArg, capturedSpeech,
                  toolErrors, confirmDone, lastCollected, roomDeleted, shutdownReason, jobVars >>

\* end_call, line 202: await self.hangup()
EndCallHangup ==
  /\ jobState = "running" /\ toolPc = "end_call_hangup"
  /\ Hangup
  /\ toolPc' = "idle"
  /\ capturedSpeech' = "none"
  /\ UNCHANGED << configVars, entryVars, remote, speechVars, toolArg, toolErrors, confirmDone,
                  lastCollected, jobVars >>

\* ConfirmInvoiceDetails keeping the acknowledgment in the shared metadata
ConfirmInvoiceDetails_StoresNotes ==
  /\ jobState = "running" /\ toolPc = "confirm_invoice_details"
  /\ \/ ToolRaises
     \/ /\ agentParticipant # "none"
        /\ metadata' = DictSet(metadata, "invoiceConfirmed", Str(toolArg))
        /\ confirmDone' = TRUE
        /\ toolPc' = "idle"
        /\ UNCHANGED << configVars, pc, remote, agentParticipant, sessionStarted, dialFailed,
                        persona, steps, callbacks,
                        speechVars, toolArg, capturedSpeech,
                        toolErrors, lastCollected, roomDeleted, shutdownReason, jobVars >>

\* confirm_invoice_details, lines 204-224: two log lines and a text result
ConfirmInvoiceDetails ==
  /\ jobState = "running" /\ toolPc = "confirm_invoice_details"
  /\ \/ ToolRaises
     \/ /\ agentParticipant # "none"
        /\ confirmDone' = TRUE
        /\ toolPc' = "idle"
        /\ UNCHANGED << configVars, entryVars, remote, speechVars, toolArg, capturedSpeech,
                        toolErrors, lastCollected, roomDeleted, shutdownReason, jobVars >>

\* detected_answering_machine, lines 226-230
DetectedAnsweringMachine ==
  /\ jobState = "running" /\ toolPc = "detected_answering_machine"
  /\ \/ ToolRaises
     \/ /\ agentParticipant # "none"
        /\ Hangup
        /\ toolPc' = "idle"
        /\ UNCHANGED << configVars, entryVars, remote, speechVars, toolArg, capturedSpeech,
                        toolErrors, confirmDone, lastCollected, jobVars >>

\* ---------------------------------------------------------------- environment
\* inbound mode: a caller joins the room, under the expected identity or not
RemoteJoin(who) ==
  /\ jobState = "running" /\ pc \in {"session_start", "wait_participant"}
  /\ Get(jobMetadata, "phoneNumber") = Null
  /\ remote = "absent"
  /\ remote' = who
  /\ UNCHANGED << configVars, entryVars, speechVars, toolVars, shutdownReason, jobVars >>

\* the remote party hangs up
RemoteLeave ==
  /\ jobState = "running" /\ remote \in {"expected", "other"}
  /\ remote' = "left"
  /\ shutdownReason' = Request("remote_left")
  /\ UNCHANGED << configVars, entryVars, speechVars, toolVars, jobVars >>

\* the running session fails
Failure ==
  /\ jobState = "running" /\ sessionStarted /\ shutdownReason = "none"
  /\ shutdownReason' = "failure"
  /\ UNCHANGED << configVars, entryVars, remote, speechVars, toolVars, jobVars >>

\* the agent starts to speak: a new speech becomes current
StartSpeech ==
  /\ sessionStarted /\ jobState = "running"
  /\ ~currentSpeech
  /\ currentSpeech' = TRUE
  /\ UNCHANGED << configVars, entryVars, remote, toolVars, shutdownReason, jobVars >>

\* the playout of the current speech finishes; it is the one a waiting
\* end_call holds, since no other speech started in between
FinishSpeech ==
  /\ jobState = "running" /\ currentSpeech
  /\ currentSpeech' = FALSE
  /\ capturedSpeech' = IF capturedSpeech = "playing" THEN "done" ELSE capturedSpeech
  /\ UNCHANGED << configVars, entryVars, remote, toolPc, toolArg, toolErrors, confirmDone, lastCollected,
                  roomDeleted, shutdownReason, jobVars >>

\* ---------------------------------------------------------------- teardown
\* the job shuts down: the session is closed (a running tool is cancelled,
\* speech stops) and the callbacks registered so far are the ones run
JobShutdown ==
  /\ jobState = "running" /\ shutdownReason # "none"
  /\ jobState' = "shutting_down"
  /\ pending' = callbacks
  /\ toolPc' = "closed"
  /\ toolArg' = << >>
  /\ capturedSpeech' = "none"
  /\ currentSpeech' = FALSE
  /\ UNCHANGED << configVars, entryVars, remote, toolErrors, confirmDone, lastCollected, roomDeleted,
                  shutdownReason, runs >>

\* write_transcript, lines 396-398, with the session the handler finds and
\* what the datastore answers
WriteTranscript ==
  /\ jobState = "shutting_down" /\ pending > 0
  /\ \E chat \in {"absent", "present", "malformed"}, msgs \in Histories,
        insRes \in DbResults, updRes \in DbResults :
       LET out == save_call_transcript(supabase, chat, msgs, metadata, RoomName,
                                       insRes, updRes)
       IN runs' = Append(runs, [ out |-> out, meta |-> metadata,
                                 chat |-> IF supabase THEN chat ELSE "unread",
                                 msgs |-> IF supabase /\ chat = "present" THEN msgs ELSE << >>,
                                 insRes |-> IF out.inserts # << >> THEN insRes ELSE "none",
                                 updRes |-> IF out.updates # << >> THEN updRes ELSE "none" ])
  /\ pending' = pending - 1
  /\ UNCHANGED << configVars, entryVars, remote, speechVars, toolVars, shutdownReason,
                  jobState >>

\* every callback has run: the process exits
JobClosed ==
  /\ jobState = "shutting_down" /\ pending = 0
  /\ jobState' = "closed"
  /\ UNCHANGED << configVars, entryVars, remote, speechVars, toolVars, shutdownReason,
                  pending, runs >>

Next ==
  \/ Parse
  \/ Connect
  \/ DialAnswered
  \/ DialFailed
  \/ SessionStart
  \/ ParticipantJoined
  \/ \E name \in ToolNames : \E arg \in ToolArgs(name) : InvokeTool(name, arg)
  \/ CollectEmail
  \/ EndCall
  \/ EndCallPlayedOut
  \/ EndCallHangup
  \/ ConfirmInvoiceDetails
  \/ DetectedAnsweringMachine
  \/ \E who \in {"expected", "other"} : RemoteJoin(who)
  \/ RemoteLeave
  \/ Failure
  \/ StartSpeech
  \/ FinishSpeech
  \/ JobShutdown
  \/ WriteTranscript
  \/ JobClosed

Spec == Init /\ [][Next]_vars

\* ---------------------------------------------------------------- bootstrap alone
\* marks an optional field left out of a job input
Absent == [t |-> "absent", s |-> << >>]
With(d, k, v) == IF v = Absent THEN d ELSE DictSet(d, k, v)

InvoiceKeys == {"dealershipName", "invoiceNumber", "customerName", "vin"}

\* the invoiceData objects: any of the four sub-fields may be missing
InvoiceObjects == { Obj([k \in K |-> Str(<<k, "-1">>)]) : K \in SUBSET InvoiceKeys }

\* job inputs in which any of the optional fields is missing, null, or set
BootInputs ==
  { With(With(With(With([validationId |-> Str(<<"v1">>)],
                        "phoneNumber", p), "needsEmail", n), "dealershipId", i),
         "invoiceData", inv) :
      p \in {Absent, Null, Str(<<"+1555">>)}, n \in {Absent, Bool(FALSE)},
      i \in {Absent, Str(<<"d1">>)}, inv \in {Absent, Null} \cup InvoiceObjects }

InitBoot == InitWith(BootInputs)

NextBoot == Parse \/ Connect

\* entrypoint up to the end of connect, over the job inputs of BootInputs
SpecBoot == InitBoot /\ [][NextBoot]_vars

TypeOK ==
  /\ pc \in {"start", "connect", "dial", "session_start", "wait_participant", "done", "returned",
            "crashed"}
  /\ jobState \in {"running", "shutting_down", "closed"}
  /\ callbacks \in 0..1 /\ pending \in 0..1
  /\ currentSpeech \in BOOLEAN
  /\ capturedSpeech \in {"none", "playing", "done"}

\* ---------------------------------------------------------------- properties
RECURSIVE InsertsIssued(_)
\* number of insert requests the given runs issued
InsertsIssued(rs) ==
  IF Len(rs) = 0 THEN 0 ELSE Len(Head(rs).out.inserts) + InsertsIssued(Tail(rs))

\* text contains sub as a contiguous piece
ContainsText(text, sub) ==
  \E i \in 0..(Len(text) - Len(sub)) : SubSeq(text, i + 1, i + Len(sub)) = sub

\* the runs of the handler that issued an insert
InsertingRuns == { i \in 1..Len(runs) : runs[i].out.inserts # << >> }

\* C1: write_transcript is registered once and has run exactly once whenever
\* the job is over, whatever ended it (hangup by a tool, remote disconnect,
\* failure, dial failure, an end before entrypoint reached its last line).
C1_Original ==
  /\ callbacks <= 1
  /\ jobState = "closed" => Len(runs) = 1

\* C2: once the dial has failed, the job is being shut down, entrypoint has
\* returned and session.start is not invoked.
C2_NoSessionAfterDialFailure ==
  dialFailed => (shutdownReason # "none" /\ pc = "returned" /\ ~sessionStarted)

C2_Witness == dialFailed /\ jobState = "closed"

\* C3: end_call issues delete_room only when the speech that was in flight
\* when it read current_speech, if any, has finished its playout; while that
\* speech plays, end_call is waiting.
C3_HangupAfterPlayout ==
  /\ toolPc = "end_call_hangup" => capturedSpeech \in {"none", "done"}
  /\ capturedSpeech = "playing" => (toolPc = "end_call_wait" /\ currentSpeech)

C3_Witness == toolPc = "end_call_hangup" /\ capturedSpeech = "done"

\* C4: in one job the insert into the calls table is issued at most once.
C4_AtMostOneInsert == InsertsIssued(runs) <= 1

C4_Witness == jobState = "closed" /\ InsertsIssued(runs) = 1 /\ roomDeleted /\ remote = "left"

\* C5: metadata holds a collectedEmail (a null one read as none) only if
\* collect_email completed earlier in the call, and a record written when it
\* never did has an empty email_collected.
C5_Original ==
  /\ Get(metadata, "collectedEmail") # Null => lastCollected.done
  /\ \A i \in InsertingRuns :
       ~lastCollected.done => runs[i].out.inserts[1].email_collected = Null

\* C6: the CallRecord has call_outcome "success" iff metadata holds a
\* collectedEmail that is neither null nor the empty string when the handler
\* runs, and "failed" otherwise.
C6_OutcomeIffEmail ==
  \A i \in InsertingRuns :
    LET m == runs[i].meta
        present == /\ "collectedEmail" \in DOMAIN m
                   /\ m["collectedEmail"] # Null
                   /\ m["collectedEmail"] # Str(<< >>)
    IN runs[i].out.inserts[1].call_outcome = IF present THEN "success" ELSE "failed"

C6_Witness ==
  \E i \in InsertingRuns :
    /\ runs[i].out.inserts[1].call_outcome = "failed"
    /\ "collectedEmail" \in DOMAIN runs[i].meta
    /\ runs[i].meta["collectedEmail"] = Str(<< >>)

\* C7: every run of collect_email(email) leaves metadata equal to what it was
\* with collectedEmail set to email, all other keys as before.
C7_Original ==
  [][(toolPc = "collect_email" /\ toolPc' = "idle")
       => metadata' = DictSet(metadata, "collectedEmail", Str(toolArg))]_vars

\* C8: no run of save_call_transcript is left by an exception, and a run in
\* which the insert or the update raised, or the session state was
\* malformed, logged exactly one error.
C8_HandlerNeverRaises ==
  \A i \in 1..Len(runs) :
    /\ ~runs[i].out.raised
    /\ (runs[i].insRes = "raise" \/ runs[i].updRes = "raise" \/ runs[i].chat = "malformed")
         => runs[i].out.errors = 1

C8_Witness ==
  \E i \in 1..Len(runs) : runs[i].insRes = "ok" /\ runs[i].updRes = "raise"

\* C9: the status update to "ENDED_CALL" is issued exactly in the runs whose
\* insert returned data, once; an insert that raises or returns no data is
\* followed by no update.
C9_UpdateIffInsertSucceeded ==
  \A i \in 1..Len(runs) :
    /\ Len(runs[i].out.updates) = IF runs[i].insRes = "ok" THEN 1 ELSE 0
    /\ \A j \in 1..Len(runs[i].out.updates) :
         /\ runs[i].out.updates[j].status = "ENDED_CALL"
         /\ runs[i].out.updates[j].id = Get(runs[i].meta, "validationId")

C9_Witness ==
  \E i \in 1..Len(runs) : runs[i].insRes = "ok" /\ Len(runs[i].out.updates) = 1

\* the end-to-end scenario of C10 is over: a job with a phone number, the
\* dial answered, a collect_email completed, the remote party hung up
EndToEndDone ==
  /\ jobState = "closed"
  /\ Get(jobMetadata, "phoneNumber") # Null
  /\ lastCollected.done
  /\ shutdownReason = "remote_left"

\* the datastore client exists, the session was readable and both requests
\* of every run of the handler returned data
DatastoreWorked ==
  /\ supabase
  /\ \A i \in 1..Len(runs) :
       runs[i].chat = "present" /\ runs[i].insRes = "ok" /\ runs[i].updRes = "ok"

At(a) == { i \in 1..Len(steps) : steps[i] = a }

\* every occurrence of b comes after an occurrence of a
Precedes(a, b) == \A j \in At(b) : \E i \in At(a) : i < j

\* C11: entrypoint takes its steps in a strict order: connect before any dial
\* request, the dial (when made) answered before session start, session
\* start before wait-for-participant, and the callback registered only after
\* the expected participant joined; no step is taken twice.
C11_StepOrder ==
  /\ Precedes("connect", "dial_request")
  /\ Precedes("dial_request", "dial_answered")
  /\ At("dial_request") # {} => Precedes("dial_answered", "session_start")
  /\ Precedes("connect", "session_start")
  /\ Precedes("session_start", "wait_for_participant")
  /\ Precedes("wait_for_participant", "participant_joined")
  /\ Precedes("participant_joined", "callback_registered")
  /\ \A a \in { steps[i] : i \in 1..Len(steps) } : Cardinality(At(a)) = 1
  /\ callbacks > 0 <=> At("callback_registered") # {}

C11_Witness ==
  steps = << "connect", "dial_request", "dial_answered", "session_start",
             "wait_for_participant", "participant_joined", "set_participant",
             "callback_registered" >>

\* C13: a dial request is issued only for a job whose metadata holds a phone
\* number; a job without one never dials or fails a dial and goes from
\* connect to the start of the session.
C13_DialOnlyWithPhone ==
  /\ At("dial_request") # {} => Get(jobMetadata, "phoneNumber") # Null
  /\ Get(jobMetadata, "phoneNumber") = Null =>
       /\ pc \in {"start", "connect", "session_start", "wait_participant", "done"}
       /\ ~dialFailed
       /\ At("connect") # {} => pc \in {"session_start", "wait_participant", "done"}
  /\ (pc = "dial" \/ dialFailed) => At("dial_request") # {}

C13_Witness ==
  /\ Get(jobMetadata, "phoneNumber") = Null
  /\ sessionStarted /\ pc = "done" /\ jobState = "closed"

\* the value the job input gives field k of dict d, or the documented default
OrDefault(d, k, default) == IF k \in DOMAIN d THEN d[k] ELSE default

\* C12: for every job input in which optional fields are missing (and
\* invoiceData, when there, is an object), the reads of lines 319-328 do not
\* raise and give each missing field its default: "Unknown Dealership",
\* "N/A", "Unknown Customer", "N/A", needsEmail true, identity
\* "dealership-unknown", no phone number; fields that are there are kept.
C12_Defaults ==
  LET m == jobMetadata
      inv == IF "invoiceData" \in DOMAIN m THEN m["invoiceData"] ELSE Obj(EmptyDict)
  IN (pc # "start" /\ inv.t = "obj") =>
       /\ pc # "crashed"
       /\ persona.dealership_name = OrDefault(inv.o, "dealershipName", Str(<<"Unknown Dealership">>))
       /\ persona.invoice_number = OrDefault(inv.o, "invoiceNumber", Str(<<"N/A">>))
       /\ persona.customer_name = OrDefault(inv.o, "customerName", Str(<<"Unknown Customer">>))
       /\ persona.vin = OrDefault(inv.o, "vin", Str(<<"N/A">>))
       /\ persona.needs_email = OrDefault(m, "needsEmail", Bool(TRUE))
       /\ "dealershipId" \notin DOMAIN m
            => persona.participant_identity = <<"dealership-", "unknown">>
       /\ "phoneNumber" \notin DOMAIN m => persona.phone_number = Null

C12_Witness ==
  /\ jobMetadata = [validationId |-> Str(<<"v1">>)]
  /\ pc = "session_start"
  /\ persona.dealership_name = Str(<<"Unknown Dealership">>)
  /\ persona.needs_email = Bool(TRUE)

\* C14 as stated: every completed detected_answering_machine invocation has
\* issued the delete_room request, with or without a speech playing.
C14_Original ==
  [][(toolPc = "detected_answering_machine" /\ toolPc' = "idle") => roomDeleted']_vars

\* C15: without a datastore client every run of the completion handler issues
\* no insert and no update, stores nothing, logs one error and returns
\* normally; the teardown goes on to run the remaining callbacks and to close.
C15_NoClientNoPersistence ==
  ~supabase =>
    /\ \A i \in 1..Len(runs) :
         /\ runs[i].out.inserts = << >> /\ runs[i].out.updates = << >>
         /\ runs[i].out.stored = << >> /\ ~runs[i].out.updated
         /\ runs[i].out.errors = 1 /\ ~runs[i].out.raised
    /\ jobState # "running" => Len(runs) + pending = callbacks
    /\ jobState = "closed" => Len(runs) = callbacks

C15_Witness ==
  /\ ~supabase /\ jobState = "closed" /\ Len(runs) = 1
  /\ lastCollected.done /\ runs[1].out.errors = 1

RECURSIVE SplitLines(_)
\* the lines of a text, split at its newlines; the empty text has none
SplitLines(text) ==
  LET breaks == { i \in 1..Len(text) : text[i] = "\n" }
  IN IF text = << >> THEN << >>
     ELSE IF breaks = {} THEN <<text>>
     ELSE LET i == CHOOSE b \in breaks : \A c \in breaks : b <= c
          IN <<SubSeq(text, 1, i - 1)>>
               \o (IF i = Len(text) THEN << << >> >>
                   ELSE SplitLines(SubSeq(text, i + 1, Len(text))))

\* the non-system messages of a history, in history order
NonSystem(msgs) == SelectSeq(msgs, LAMBDA m : m.role # "system")

\* what the transcript is to hold for one message: label, ": ", its text
Entry(m) ==
  << (IF m.role = "assistant" THEN "Agent" ELSE "Dealership"), ": " >> \o ContentText(m.content)

\* number of newlines inside a text
Newlines(text) == Cardinality({ i \in 1..Len(text) : text[i] = "\n" })

RECURSIVE NewlinesIn(_)
\* number of newlines inside the texts of a sequence of messages
NewlinesIn(msgs) ==
  IF Len(msgs) = 0 THEN 0
  ELSE Newlines(ContentText(Head(msgs).content)) + NewlinesIn(Tail(msgs))

\* the runs of the handler that read a history and issued an insert
TranscribingRuns == { i \in InsertingRuns : runs[i].chat = "present" }

\* C16 as stated: every stored transcript has exactly one line per non-system
\* message, in history order, each the label and the text of its message.
C16_Original ==
  \A i \in { r \in TranscribingRuns : runs[r].out.stored # << >> } :
    LET ls == SplitLines(runs[i].out.stored[1].full_transcript)
        ns == NonSystem(runs[i].msgs)
    IN /\ Len(ls) = Len(ns)
       /\ \A j \in 1..Len(ls) : ls[j] = Entry(ns[j])

\* C16 amended: the transcript is one entry per non-system message, in
\* history order and newline-separated, each entry the label ("Agent" for
\* assistant, "Dealership" otherwise), ": " and the message's text (a plain
\* string as it is, a list as its items' texts joined by spaces); no system
\* message contributes. An entry is one line unless the text holds newlines:
\* the line count is the number of non-system messages plus the newlines
\* inside their texts.
C16_TranscriptEntries ==
  \A i \in TranscribingRuns :
    LET t  == runs[i].out.inserts[1].full_transcript
        ls == SplitLines(t)
        ns == NonSystem(runs[i].msgs)
    IN /\ t = Join(<<"\n">>, [j \in 1..Len(ns) |-> Entry(ns[j])])
       /\ Len(ls) = Len(ns) + NewlinesIn(ns)
       /\ NewlinesIn(ns) = 0 => \A j \in 1..Len(ls) : ls[j] = Entry(ns[j])
       /\ ~ContainsText(t, <<"instr">>)

C16_Witness ==
  \E i \in TranscribingRuns :
    /\ runs[i].msgs = << [role |-> "system", content |-> Plain(<<"instr">>)],
                         [role |-> "user",
                          content |-> Parts(<< [hasText |-> TRUE, text |-> "Bueno"],
                                               [hasText |-> FALSE, text |-> "b@x"] >>)] >>
    /\ runs[i].out.inserts[1].full_transcript = <<"Dealership", ": ", "Bueno", " ", "b@x">>

\* the address a CallRecord is to carry, from the job input and the
\* collect_email invocations alone
EmailOfCall ==
  IF lastCollected.done THEN Str(lastCollected.email) ELSE Get(jobMetadata, "collectedEmail")

\* C17: a confirm_invoice_details invocation leaves metadata as it was, and
\* the email_collected and call_outcome of every CallRecord are fixed by the
\* job input and the collect_email invocations alone, so they are the same
\* with or without confirm_invoice_details invocations among the tool calls.
C17_ConfirmPersistsNothing ==
  /\ [][(toolPc = "confirm_invoice_details" /\ toolPc' = "idle") => metadata' = metadata]_vars
  /\ [](\A i \in InsertingRuns :
          /\ runs[i].out.inserts[1].email_collected = EmailOfCall
          /\ runs[i].out.inserts[1].call_outcome = "success" <=> Truthy(EmailOfCall)
          /\ runs[i].meta = metadata)

C17_Witness ==
  /\ confirmDone /\ lastCollected.done
  /\ metadata = DictSet(jobMetadata, "collectedEmail", Str(<<"a@x">>))
  /\ \E i \in InsertingRuns :
       /\ runs[i].out.stored # << >>
       /\ runs[i].out.stored[1].email_collected = Str(<<"a@x">>)
       /\ runs[i].out.stored[1].call_outcome = "success"

\* C18 as stated: no tool handler has run with the participant reference
\* unset, so no read of self.participant.identity has failed.
C18_Original == ~toolErrors

\* C19: once a collect_email invocation has completed, metadata holds the
\* argument of the last one to complete, and every CallRecord the handler
\* inserts or stores carries that argument as email_collected, however many
\* invocations came before it.
C19_LastWriteWins ==
  lastCollected.done =>
    /\ Get(metadata, "collectedEmail") = Str(lastCollected.email)
    /\ \A i \in InsertingRuns :
         /\ runs[i].out.inserts[1].email_collected = Str(lastCollected.email)
         /\ \A j \in 1..Len(runs[i].out.stored) :
              runs[i].out.stored[j].email_collected = Str(lastCollected.email)

C19_Witness ==
  /\ lastCollected.overwrote /\ lastCollected.email = <<"b@x">>
  /\ jobState = "closed"
  /\ \E i \in InsertingRuns :
       /\ runs[i].out.stored # << >>
       /\ runs[i].out.stored[1].email_collected = Str(<<"b@x">>)

====
